---- MODULE Spec2Model ----
(***************************************************************************)
(* The bundle index of pkg/repo/index.go:                                  *)
(*     type Index map[string]map[string]string                             *)
(* with Add, Has, Get, Merge, WriteFile and loadIndex.                     *)
(*                                                                         *)
(* A Go string is a sequence of bytes.  It is modelled as a sequence of    *)
(* one-character strings, so that the semantic-version parser, the         *)
(* constraint parser and the JSON coder work on the characters.  The       *)
(* strings of the model are written over Alphabet.                         *)
(***************************************************************************)
EXTENDS Integers, Sequences, FiniteSets, TLC

\* ------------------------------------------------------------------------
\* Characters.  Alphabet lists the characters of the model in byte order.
\* InvalidByte stands for the byte 0xFF, which is not valid UTF-8;
\* ReplacementChar for U+FFFD (the bytes EF BF BD).
InvalidByte == "\\xff"
ReplacementChar == "U+FFFD"

Alphabet ==
    << "*", "+", ".", "0", "1", "2", ">", "D", "X", "^", "a", "b", "x",
       ReplacementChar, InvalidByte >>

CharCode(c) == CHOOSE k \in 1..Len(Alphabet) : Alphabet[k] = c

\* s < t for Go strings: bytewise lexicographic order.
StringLess(s, t) ==
    \E k \in 1..(Len(t)) :
        /\ \A j \in 1..(k - 1) : j <= Len(s) /\ s[j] = t[j]
        /\ \/ k = Len(s) + 1
           \/ k <= Len(s) /\ CharCode(s[k]) < CharCode(t[k])

\* strings.Index: the first position of c in s, 0 when there is none.
IndexOf(s, c) ==
    IF \E k \in 1..Len(s) : s[k] = c
    THEN CHOOSE k \in 1..Len(s) : s[k] = c /\ \A j \in 1..(k - 1) : s[j] # c
    ELSE 0

RECURSIVE Split(_, _)
Split(s, sep) ==
    LET k == IndexOf(s, sep)
    IN  IF k = 0 THEN << s >>
        ELSE << SubSeq(s, 1, k - 1) >> \o Split(SubSeq(s, k + 1, Len(s)), sep)

\* ------------------------------------------------------------------------
\* github.com/Masterminds/semver (v1), the part index.go calls.  Modelled
\* for strings without whitespace, "v" prefix, pre-release part, "," and
\* "||": the strings of the model have none of these.
Digits == {"0", "1", "2", "3", "4", "5", "6", "7", "8", "9"}
Letters == {"D", "X", "a", "b", "x"}    \* the letters of Alphabet

DigitValue(c) == CHOOSE n \in 0..9 : << "0", "1", "2", "3", "4", "5", "6", "7", "8", "9" >>[n + 1] = c

IsNumber(p) == Len(p) > 0 /\ \A k \in 1..Len(p) : p[k] \in Digits

RECURSIVE ParseInt(_)
ParseInt(p) ==
    IF Len(p) = 0 THEN 0
    ELSE 10 * ParseInt(SubSeq(p, 1, Len(p) - 1)) + DigitValue(p[Len(p)])

\* [0-9A-Za-z\-]+(\.[0-9A-Za-z\-]+)*
IsIdentifiers(m) ==
    \A p \in {Split(m, ".")[k] : k \in 1..Len(Split(m, "."))} :
        Len(p) > 0 /\ \A k \in 1..Len(p) : p[k] \in Digits \cup Letters

\* The text before the first "+", and the text after it.
CorePart(s) == IF IndexOf(s, "+") = 0 THEN s ELSE SubSeq(s, 1, IndexOf(s, "+") - 1)
MetaPart(s) == IF IndexOf(s, "+") = 0 THEN << >> ELSE SubSeq(s, IndexOf(s, "+") + 1, Len(s))
MetaOk(s) == IndexOf(s, "+") = 0 \/ IsIdentifiers(MetaPart(s))

\* semver.NewVersion: ^([0-9]+)(\.[0-9]+)?(\.[0-9]+)?(\+meta)?$ ; a missing
\* minor or patch is 0.
NewVersion(v) ==
    LET parts == Split(CorePart(v), ".")
        ok == /\ Len(parts) \in 1..3
              /\ \A k \in 1..Len(parts) : IsNumber(parts[k])
              /\ MetaOk(v)
    IN  IF ~ok
        THEN [err |-> "Invalid Semantic Version", major |-> 0, minor |-> 0,
              patch |-> 0, metadata |-> << >>]
        ELSE [err |-> "nil",
              major |-> ParseInt(parts[1]),
              minor |-> IF Len(parts) >= 2 THEN ParseInt(parts[2]) ELSE 0,
              patch |-> IF Len(parts) >= 3 THEN ParseInt(parts[3]) ELSE 0,
              metadata |-> MetaPart(v)]

\* Version.Compare: by major, minor, patch; build metadata is ignored.
Compare(v, o) ==
    IF v.major # o.major THEN (IF v.major < o.major THEN -1 ELSE 1)
    ELSE IF v.minor # o.minor THEN (IF v.minor < o.minor THEN -1 ELSE 1)
    ELSE IF v.patch # o.patch THEN (IF v.patch < o.patch THEN -1 ELSE 1)
    ELSE 0

OpChars == {"=", "!", ">", "<", "~", "^"}
Ops ==
    { << >>, << "=" >>, << "!", "=" >>, << ">" >>, << "<" >>, << ">", "=" >>,
      << "=", ">" >>, << "<", "=" >>, << "=", "<" >>, << "~" >>, << "~", ">" >>,
      << "^" >> }

\* The number of leading operator characters of c.
OpLen(c) ==
    IF \E k \in 1..Len(c) : c[k] \notin OpChars
    THEN (CHOOSE k \in 1..Len(c) : c[k] \notin OpChars /\ \A j \in 1..(k - 1) : c[j] \in OpChars) - 1
    ELSE Len(c)

isX(x) == x \in { << "x" >>, << "*" >>, << "X" >> }

\* [0-9|x|X|\*]+
IsConstraintPart(p) ==
    Len(p) > 0 /\ \A k \in 1..Len(p) : p[k] \in Digits \cup {"|", "x", "X", "*"}

NoConstraint ==
    [err |-> "improper constraint", op |-> << >>, con |-> NewVersion(<< >>),
     dirty |-> FALSE, minorDirty |-> FALSE, patchDirty |-> FALSE]

\* semver.NewConstraint for one comparator (parseConstraint).
NewConstraint(c) ==
    LET op == SubSeq(c, 1, OpLen(c))
        cv == SubSeq(c, OpLen(c) + 1, Len(c))
        parts == Split(CorePart(cv), ".")
        matches == /\ op \in Ops
                   /\ Len(parts) \in 1..3
                   /\ \A k \in 1..Len(parts) : IsConstraintPart(parts[k])
                   /\ MetaOk(cv)
    IN  IF ~matches THEN NoConstraint
        ELSE
        LET majorX == isX(parts[1])
            minorX == ~majorX /\ (Len(parts) < 2 \/ isX(parts[2]))
            patchX == ~majorX /\ ~minorX /\ Len(parts) = 3 /\ isX(parts[3])
            ver == IF majorX THEN << "0", ".", "0", ".", "0" >>
                   ELSE IF minorX THEN parts[1] \o << ".", "0", ".", "0" >>
                   ELSE IF patchX THEN parts[1] \o << "." >> \o parts[2] \o << ".", "0" >>
                   ELSE cv
            con == NewVersion(ver)
        IN  IF con.err # "nil" THEN [NoConstraint EXCEPT !.err = "constraint Parser Error"]
            ELSE [err |-> "nil", op |-> op, con |-> con,
                  dirty |-> majorX \/ minorX \/ patchX,
                  minorDirty |-> minorX, patchDirty |-> patchX]

constraintTilde(v, c) ==
    IF Compare(v, c.con) < 0 THEN FALSE
    ELSE IF /\ c.con.major = 0 /\ c.con.minor = 0 /\ c.con.patch = 0
            /\ ~c.minorDirty /\ ~c.patchDirty THEN TRUE
    ELSE IF v.major # c.con.major THEN FALSE
    ELSE IF v.minor # c.con.minor /\ ~c.minorDirty THEN FALSE
    ELSE TRUE

constraintTildeOrEqual(v, c) ==
    IF c.dirty THEN constraintTilde(v, c) ELSE Compare(v, c.con) = 0

constraintNotEqual(v, c) ==
    IF c.dirty
    THEN IF c.con.major # v.major THEN TRUE
         ELSE IF c.con.minor # v.minor /\ ~c.minorDirty THEN TRUE
         ELSE FALSE
    ELSE Compare(v, c.con) # 0

constraintLessThan(v, c) ==
    IF ~c.dirty THEN Compare(v, c.con) < 0
    ELSE IF v.major > c.con.major THEN FALSE
    ELSE IF v.minor > c.con.minor /\ ~c.minorDirty THEN FALSE
    ELSE TRUE

constraintLessThanEqual(v, c) ==
    IF ~c.dirty THEN Compare(v, c.con) <= 0
    ELSE IF v.major > c.con.major THEN FALSE
    ELSE IF v.minor > c.con.minor /\ ~c.minorDirty THEN FALSE
    ELSE TRUE

constraintCaret(v, c) ==
    IF Compare(v, c.con) < 0 THEN FALSE
    ELSE v.major = c.con.major

\* Constraints.Check for one comparator.
Check(c, v) ==
    CASE c.op \in { << >>, << "=" >> } -> constraintTildeOrEqual(v, c)
      [] c.op = << "!", "=" >> -> constraintNotEqual(v, c)
      [] c.op = << ">" >> -> Compare(v, c.con) = 1
      [] c.op = << "<" >> -> constraintLessThan(v, c)
      [] c.op \in { << ">", "=" >>, << "=", ">" >> } -> Compare(v, c.con) >= 0
      [] c.op \in { << "<", "=" >>, << "=", "<" >> } -> constraintLessThanEqual(v, c)
      [] c.op \in { << "~" >>, << "~", ">" >> } -> constraintTilde(v, c)
      [] c.op = << "^" >> -> constraintCaret(v, c)

\* ------------------------------------------------------------------------
\* Bounds and inputs.
MaxVersions == 2       \* versions under a name that Add may build up
MaxSrcVersions == 2    \* versions under a name of a Merge source

\* One name: Get, Has and Add read and write the versions of one name only,
\* and Merge visits the names of its source one after the other.
Names == { << "a" >> }
Digests == { << "D", "1" >>, << "D", "2" >> }

V100 == << "1", ".", "0", ".", "0" >>
V10 == << "1", ".", "0" >>
V120 == << "1", ".", "2", ".", "0" >>
V100b == << "1", ".", "0", ".", "0", "+", "b" >>
C1x == << "1", ".", "x" >>
Cgt10 == << ">", "1", ".", "0" >>
Ccaret100 == << "^", "1", ".", "0", ".", "0" >>
C2x == << "2", ".", "x" >>
BadUtf8 == << InvalidByte >>
Empty == << >>

\* Version strings given to Add and found in Merge sources.
Versions == { V100, V10, V120, Cgt10, BadUtf8 }
\* Version strings given to Get and Has.
Queries == Versions \cup { Empty, V100b, C1x, Ccaret100, C2x }

\* NewVersion and NewConstraint tabulated over the strings that are version
\* keys or queries in the model (BadUtf8 comes back from a written file as
\* the replacement character).
Strings == Queries \cup { << ReplacementChar >>, << "*" >> }
Version == [s \in Strings |-> NewVersion(s)]
Constraint == [s \in Strings |-> NewConstraint(s)]

\* ------------------------------------------------------------------------
\* Index: a function from names to functions from versions to digests.
EmptyIndex == << >>

Put(m, k, v) == [x \in DOMAIN m \cup {k} |-> IF x = k THEN v ELSE m[x]]

VersionMaps(n) ==
    UNION { [S -> Digests] : S \in { T \in SUBSET Versions : Cardinality(T) <= n } }

\* The indices a Merge source may be.
Sources == UNION { [N -> VersionMaps(MaxSrcVersions)] : N \in SUBSET Names }

\* Add without the "name is known" branch: the name's versions are replaced.
Add_ReplacesVersions(i, name, version, digest) ==
    Put(i, name, Put(<< >>, version, digest))

Add(i, name, version, digest) ==
    IF name \in DOMAIN i
    THEN [i EXCEPT ![name] = Put(i[name], version, digest)]
    ELSE Put(i, name, Put(<< >>, version, digest))

\* Get returning the parse error of a version key instead of skipping it.
Get_ParseErrorAborts(i, name, version) ==
    IF name \notin DOMAIN i
    THEN { [digest |-> Empty, err |-> "ErrNoBundleName"] }
    ELSE IF DOMAIN i[name] = {}
    THEN { [digest |-> Empty, err |-> "ErrNoBundleVersion"] }
    ELSE
    LET vs == i[name]
        constraint == IF Len(version) = 0 THEN Constraint[<< "*" >>]
                      ELSE Constraint[version]
    IN  IF constraint.err # "nil"
        THEN { [digest |-> Empty, err |-> constraint.err] }
        ELSE
        LET hits == { ver \in DOMAIN vs :
                        /\ Version[ver].err = "nil"
                        /\ Check(constraint, Version[ver]) }
            bad == { ver \in DOMAIN vs : Version[ver].err # "nil" }
        IN  { [digest |-> vs[ver], err |-> "nil"] : ver \in hits }
            \cup { [digest |-> Empty, err |-> Version[ver].err] : ver \in bad }
            \cup (IF hits = {} /\ bad = {}
                  THEN { [digest |-> Empty, err |-> "ErrNoBundleVersion"] } ELSE {})

\* Get reporting a constraint that does not parse as "no version found".
Get_SwallowsConstraintError(i, name, version) ==
    IF name \notin DOMAIN i
    THEN { [digest |-> Empty, err |-> "ErrNoBundleName"] }
    ELSE IF DOMAIN i[name] = {}
    THEN { [digest |-> Empty, err |-> "ErrNoBundleVersion"] }
    ELSE
    LET vs == i[name]
        constraint == IF Len(version) = 0 THEN Constraint[<< "*" >>]
                      ELSE Constraint[version]
        hits == { ver \in DOMAIN vs :
                    /\ constraint.err = "nil"
                    /\ Version[ver].err = "nil"
                    /\ Check(constraint, Version[ver]) }
    IN  IF hits = {}
        THEN { [digest |-> Empty, err |-> "ErrNoBundleVersion"] }
        ELSE { [digest |-> vs[ver], err |-> "nil"] : ver \in hits }

\* Get looking the version up as a key before matching it as a constraint.
Get_ExactKeyFirst(i, name, version) ==
    IF name \notin DOMAIN i
    THEN { [digest |-> Empty, err |-> "ErrNoBundleName"] }
    ELSE IF DOMAIN i[name] = {}
    THEN { [digest |-> Empty, err |-> "ErrNoBundleVersion"] }
    ELSE IF version \in DOMAIN i[name]
    THEN { [digest |-> i[name][version], err |-> "nil"] }
    ELSE
    LET vs == i[name]
        constraint == IF Len(version) = 0 THEN Constraint[<< "*" >>]
                      ELSE Constraint[version]
    IN  IF constraint.err # "nil"
        THEN { [digest |-> Empty, err |-> constraint.err] }
        ELSE
        LET hits == { ver \in DOMAIN vs :
                        /\ Version[ver].err = "nil"
                        /\ Check(constraint, Version[ver]) }
        IN  IF hits = {}
            THEN { [digest |-> Empty, err |-> "ErrNoBundleVersion"] }
            ELSE { [digest |-> vs[ver], err |-> "nil"] : ver \in hits }

\* Get: the set of results (digest, err) the call may return.  The loop
\* "for ver, digest := range vs" visits the keys in an unspecified order and
\* returns at the first version that satisfies the constraint, so every
\* satisfying version may be the one returned.
Get(i, name, version) ==
    IF name \notin DOMAIN i
    THEN { [digest |-> Empty, err |-> "ErrNoBundleName"] }
    ELSE IF DOMAIN i[name] = {}
    THEN { [digest |-> Empty, err |-> "ErrNoBundleVersion"] }
    ELSE
    LET vs == i[name]
        constraint == IF Len(version) = 0 THEN Constraint[<< "*" >>]
                      ELSE Constraint[version]
    IN  IF constraint.err # "nil"
        THEN { [digest |-> Empty, err |-> constraint.err] }
        ELSE
        LET hits == { ver \in DOMAIN vs :
                        /\ Version[ver].err = "nil"
                        /\ Check(constraint, Version[ver]) }
        IN  IF hits = {}
            THEN { [digest |-> Empty, err |-> "ErrNoBundleVersion"] }
            ELSE { [digest |-> vs[ver], err |-> "nil"] : ver \in hits }

\* Has: the set of booleans the call may return.
Has(i, name, version) == { r.err = "nil" : r \in Get(i, name, version) }

\* The inner loop of Merge over the versions of one source name; todo is the
\* set of versions not yet visited.  The set of destinations it may produce.
RECURSIVE MergeVersions(_, _, _, _)
MergeVersions(i, name, versionMap, todo) ==
    IF todo = {} THEN { i }
    ELSE UNION { UNION {
            MergeVersions(IF has THEN i ELSE Add(i, name, version, versionMap[version]),
                          name, versionMap, todo \ {version})
            : has \in Has(i, name, version) } : version \in todo }

\* The outer loop of Merge over the names of the source.
RECURSIVE MergeNames(_, _, _)
MergeNames(i, src, todo) ==
    IF todo = {} THEN { i }
    ELSE UNION { UNION {
            MergeNames(j, src, todo \ {name})
            : j \in MergeVersions(i, name, src[name], DOMAIN src[name]) } : name \in todo }

\* Merge creating every source name in the destination before it visits the
\* name's versions.
Merge_CreatesNames(i, src) ==
    MergeNames([n \in DOMAIN i \cup DOMAIN src |-> IF n \in DOMAIN i THEN i[n] ELSE << >>],
               src, DOMAIN src)

\* Merge: the set of destinations the call may leave, over the iteration
\* orders of the two range loops.
Merge(i, src) == MergeNames(i, src, DOMAIN src)

\* ------------------------------------------------------------------------
\* encoding/json.  A JSON object is modelled as the sequence of its members
\* (key literal, value); a string literal as the sequence of its characters
\* and escapes.  A byte stream is [kind |-> "eof"] (no bytes),
\* [kind |-> "malformed"] or [kind |-> "object", members |-> ...].
EncodeChar(c) ==
    CASE c = InvalidByte -> "\\ufffd"       \* invalid UTF-8 is coerced to U+FFFD
      [] c = ">" -> "\\u003e"               \* HTML escaping
      [] OTHER -> c

DecodeChar(e) ==
    CASE e = "\\ufffd" -> ReplacementChar
      [] e = "\\u003e" -> ">"
      [] OTHER -> e

EncodeString(s) == [k \in 1..Len(s) |-> EncodeChar(s[k])]
DecodeString(l) == [k \in 1..Len(l) |-> DecodeChar(l[k])]

\* The keys of a map in the order json.Marshal writes them: sorted.
RECURSIVE SortedKeys(_)
SortedKeys(S) ==
    IF S = {} THEN << >>
    ELSE LET min == CHOOSE s \in S : \A t \in S \ {s} : StringLess(s, t)
         IN  << min >> \o SortedKeys(S \ {min})

EncodeVersions(vs) ==
    LET keys == SortedKeys(DOMAIN vs)
    IN  [k \in 1..Len(keys) |->
            [key |-> EncodeString(keys[k]), value |-> EncodeString(vs[keys[k]])]]

MarshalIndent(i) ==
    LET keys == SortedKeys(DOMAIN i)
    IN  [err |-> "nil",
         b |-> [kind |-> "object",
                members |-> [k \in 1..Len(keys) |->
                    [key |-> EncodeString(keys[k]), value |-> EncodeVersions(i[keys[k]])]]]]

\* Decoding the members of an object into a map: a repeated key replaces
\* the entry an earlier member set.
RECURSIVE DecodeVersions(_)
DecodeVersions(members) ==
    IF Len(members) = 0 THEN << >>
    ELSE LET last == members[Len(members)]
         IN  Put(DecodeVersions(SubSeq(members, 1, Len(members) - 1)),
                 DecodeString(last.key), DecodeString(last.value))

RECURSIVE DecodeNames(_)
DecodeNames(members) ==
    IF Len(members) = 0 THEN EmptyIndex
    ELSE LET last == members[Len(members)]
         IN  Put(DecodeNames(SubSeq(members, 1, Len(members) - 1)),
                 DecodeString(last.key), DecodeVersions(last.value))

\* json.NewDecoder(r).Decode(&i)
Decode(r) ==
    CASE r.kind = "eof" -> [i |-> EmptyIndex, err |-> "io.EOF"]
      [] r.kind = "malformed" -> [i |-> EmptyIndex, err |-> "SyntaxError"]
      [] r.kind = "object" -> [i |-> DecodeNames(r.members), err |-> "nil"]

\* loadIndex returning a fresh Index instead of the decoded one.
loadIndex_ReturnsFresh(r) ==
    LET d == Decode(r)
    IN  IF d.err # "nil" /\ d.err # "io.EOF" THEN [i |-> EmptyIndex, err |-> d.err]
        ELSE [i |-> EmptyIndex, err |-> "nil"]

loadIndex(r) ==
    LET d == Decode(r)
    IN  IF d.err # "nil" /\ d.err # "io.EOF" THEN [i |-> d.i, err |-> d.err]
        ELSE [i |-> d.i, err |-> "nil"]

\* WriteFile: the error returned and the bytes written to dest (the write
\* itself is taken to succeed).
WriteFile(i) ==
    LET m == MarshalIndent(i)
    IN  IF m.err # "nil" THEN [err |-> m.err, b |-> [kind |-> "eof"]]
        ELSE [err |-> "nil", b |-> m.b]

\* Byte streams the program may be given to load.
Inputs ==
    { [kind |-> "eof"], [kind |-> "malformed"],
      [kind |-> "object", members |-> << >>],
      [kind |-> "object", members |-> << [key |-> << "a" >>, value |-> << >>] >>] }

\* ------------------------------------------------------------------------
\* State.
VARIABLES
    index,   \* the Index the program holds
    op,      \* the call that has just returned: "Add", "Has", "Get", "Merge",
             \* "WriteFile", "LoadIndex"; "idle" when the caller has moved on
    arg,     \* the arguments of that call
    pre,     \* the Index before that call
    ret      \* what that call returned

vars == << index, op, arg, pre, ret >>

Init ==
    /\ index = EmptyIndex
    /\ op = "idle"
    /\ arg = << >>
    /\ pre = EmptyIndex
    /\ ret = << >>

WithinBound(i) == \A n \in DOMAIN i : Cardinality(DOMAIN i[n]) <= MaxVersions

AddCall ==
    \E name \in Names, version \in Versions, digest \in Digests :
        /\ op = "idle"
        /\ WithinBound(Add(index, name, version, digest))
        /\ index' = Add(index, name, version, digest)
        /\ op' = "Add"
        /\ arg' = [name |-> name, version |-> version, digest |-> digest]
        /\ pre' = index
        /\ ret' = << >>

GetCall ==
    \E name \in Names, version \in Queries :
        \E r \in Get(index, name, version) :
            /\ op = "idle"
            /\ op' = "Get"
            /\ arg' = [name |-> name, version |-> version]
            /\ pre' = index
            /\ ret' = r
            /\ UNCHANGED index

HasCall ==
    \E name \in Names, version \in Queries :
        \E b \in Has(index, name, version) :
            /\ op = "idle"
            /\ op' = "Has"
            /\ arg' = [name |-> name, version |-> version]
            /\ pre' = index
            /\ ret' = [ok |-> b]
            /\ UNCHANGED index

MergeCall ==
    \E src \in Sources :
        /\ op = "idle"
        /\ WithinBound(index)
        /\ \E i \in Merge(index, src) :
            /\ index' = i
            /\ op' = "Merge"
            /\ arg' = [src |-> src]
            /\ pre' = index
            /\ ret' = << >>

WriteFileCall ==
    /\ op = "idle"
    /\ op' = "WriteFile"
    /\ arg' = << >>
    /\ pre' = index
    /\ ret' = WriteFile(index)
    /\ UNCHANGED index

\* LoadIndex of a given byte stream, or of the file WriteFile wrote last.
LoadIndexCall ==
    \E r \in IF op = "WriteFile" /\ ret.err = "nil" THEN { ret.b } ELSE Inputs :
        LET l == loadIndex(r)
        IN  /\ op \in {"idle", "WriteFile"}
            /\ index' = IF l.err = "nil" THEN l.i ELSE index
            /\ op' = "LoadIndex"
            /\ arg' = [r |-> r]
            /\ pre' = index
            /\ ret' = l

\* The caller takes the result of the call and moves on.
Return ==
    /\ op # "idle"
    /\ op' = "idle"
    /\ arg' = << >>
    /\ pre' = index
    /\ ret' = << >>
    /\ UNCHANGED index

Next ==
    \/ AddCall
    \/ GetCall
    \/ HasCall
    \/ MergeCall
    \/ WriteFileCall
    \/ LoadIndexCall
    \/ Return

Spec == Init /\ [][Next]_vars

\* The program that only adds and merges, starting from the empty index.
NextAddMerge ==
    \/ AddCall
    \/ GetCall
    \/ HasCall
    \/ MergeCall
    \/ Return

SpecAddMerge == Init /\ [][NextAddMerge]_vars

\* ------------------------------------------------------------------------
\* Properties.
IsSemVer(v) == NewVersion(v).err = "nil"
IsConstraint(c) == NewConstraint(c).err = "nil"

\* The version keys of name that parse and satisfy the constraint c.
Satisfying(i, name, c) ==
    IF name \notin DOMAIN i \/ ~IsConstraint(c) THEN {}
    ELSE { ver \in DOMAIN i[name] :
             IsSemVer(ver) /\ Check(NewConstraint(c), NewVersion(ver)) }

\* The version keys of name that parse.
ValidKeys(i, name) == { ver \in DOMAIN i[name] : IsSemVer(ver) }

HasEntry(i, name, version) == name \in DOMAIN i /\ version \in DOMAIN i[name]

\* C1: after Add(name, version, digest) with a version that is a valid
\* semantic version, Get(name, version) returns exactly that digest and no
\* error, whatever other versions the name holds.
C1_AddThenGetReturnsDigest ==
    (op = "Add" /\ IsSemVer(arg.version))
        => Get(index, arg.name, arg.version) = { [digest |-> arg.digest, err |-> "nil"] }

\* C2: every (name, version) entry the destination holds before Merge(src)
\* maps to the same digest after it.
C2_MergeNeverOverwrites ==
    op = "Merge"
        => \A n \in DOMAIN pre : \A v \in DOMAIN pre[n] :
               HasEntry(index, n, v) /\ index[n][v] = pre[n][v]

\* C3: every (name, version) key of the source that is not a key of the
\* destination before Merge(src) is one after it, with the source's digest.
C3_MergeFillsEveryGap ==
    op = "Merge"
        => \A n \in DOMAIN arg.src : \A v \in DOMAIN arg.src[n] :
               ~HasEntry(pre, n, v)
                   => HasEntry(index, n, v) /\ index[n][v] = arg.src[n][v]

\* C4: Merge is idempotent: a second Merge(src), in any iteration order,
\* leaves the destination as the first Merge(src) left it.
C4_MergeIdempotent ==
    op = "Merge" => Merge(index, arg.src) = { index }

\* C4 witness: a merge that changed the destination and whose result
\* depended on the iteration order.
C4_Witness ==
    /\ op = "Merge"
    /\ index # pre
    /\ Cardinality(Merge(pre, arg.src)) > 1

\* C5: for a known name and a non-empty version that parses as a
\* constraint, Get succeeds iff some version key parses and satisfies the
\* constraint; it then returns the digest of such a key; otherwise it fails
\* with ErrNoBundleVersion.  Keys that do not parse are skipped.
C5_GetByConstraint ==
    (/\ op = "Get"
     /\ arg.name \in DOMAIN index
     /\ Len(arg.version) > 0
     /\ IsConstraint(arg.version))
        => LET sat == Satisfying(index, arg.name, arg.version)
           IN  /\ (ret.err = "nil") <=> (sat # {})
               /\ ret.err = "nil"
                      => \E ver \in sat : ret.digest = index[arg.name][ver]
               /\ sat = {} => ret.err = "ErrNoBundleVersion"

\* C5 witness: a Get by constraint that succeeded on a name that also holds
\* a key that does not parse.
C5_Witness ==
    /\ op = "Get"
    /\ arg.version = Ccaret100
    /\ ret.err = "nil"
    /\ \E ver \in DOMAIN index[arg.name] : ~IsSemVer(ver)

\* C6 as claimed: for every known name, whatever versions it holds, and
\* every (non-empty) version that is not a valid constraint, Get fails with
\* the constraint parser's error.
C6_InvalidConstraintAnyKnownName ==
    (/\ op = "Get"
     /\ arg.name \in DOMAIN index
     /\ Len(arg.version) > 0
     /\ ~IsConstraint(arg.version))
        => ret.err = NewConstraint(arg.version).err

\* C6: for every name that holds at least one version and every non-empty
\* version that is not a valid constraint, Get fails with the constraint
\* parser's error and returns no digest.
C6_InvalidConstraint ==
    (/\ op = "Get"
     /\ arg.name \in DOMAIN index
     /\ DOMAIN index[arg.name] # {}
     /\ Len(arg.version) > 0
     /\ ~IsConstraint(arg.version))
        => ret = [digest |-> Empty, err |-> NewConstraint(arg.version).err]

\* C6 witness: Get with a version that is no constraint, on a name that
\* holds versions.
C6_Witness ==
    /\ op = "Get"
    /\ arg.version = BadUtf8
    /\ arg.name \in DOMAIN index
    /\ \E ver \in DOMAIN index[arg.name] : IsSemVer(ver)
    /\ ret.err = "improper constraint"

\* C7: Get(name, "") returns the digest of the highest version, when the
\* name holds two or more valid versions.
C7_EmptyVersionGetsHighest ==
    (/\ op = "Get"
     /\ Len(arg.version) = 0
     /\ arg.name \in DOMAIN index
     /\ Cardinality(ValidKeys(index, arg.name)) >= 2)
        => /\ ret.err = "nil"
           /\ \E ver \in ValidKeys(index, arg.name) :
                  /\ ret.digest = index[arg.name][ver]
                  /\ \A w \in ValidKeys(index, arg.name) :
                         Compare(NewVersion(ver), NewVersion(w)) >= 0

StringsOf(i) ==
    DOMAIN i \cup UNION { DOMAIN i[n] \cup { i[n][v] : v \in DOMAIN i[n] } : n \in DOMAIN i }

ValidUTF8(s) == \A k \in 1..Len(s) : s[k] # InvalidByte

\* C9 as claimed: the bytes WriteFile writes decode, without error, to an
\* index with the same entries.
C9_RoundTrip ==
    op = "WriteFile"
        => ret.err = "nil" /\ loadIndex(ret.b) = [i |-> index, err |-> "nil"]

\* C9: the bytes WriteFile writes decode, without error, to an index with
\* the same entries, when every name, version and digest is valid UTF-8.
C9_RoundTripValidUTF8 ==
    (op = "WriteFile" /\ \A s \in StringsOf(index) : ValidUTF8(s))
        => ret.err = "nil" /\ loadIndex(ret.b) = [i |-> index, err |-> "nil"]

\* C9 witness: a written index of valid UTF-8 strings with two versions, one
\* of them with a character that is escaped in the file.
C9_Witness ==
    /\ op = "WriteFile"
    /\ \A s \in StringsOf(index) : ValidUTF8(s)
    /\ \E n \in DOMAIN index :
           Cardinality(DOMAIN index[n]) >= 2 /\ Cgt10 \in DOMAIN index[n]

\* C10: after any sequence of Add and Merge calls from the empty index,
\* every name of the index holds at least one version, so Get never fails
\* with ErrNoBundleVersion on an empty version set.
C10_NoEmptyVersionSet ==
    /\ \A n \in DOMAIN index : DOMAIN index[n] # {}
    /\ (op = "Get" /\ ret.err = "ErrNoBundleVersion")
           => DOMAIN index[arg.name] # {}

\* C10 witness: a Merge whose source has a name with no versions, which the
\* destination does not have afterwards.
C10_Witness ==
    /\ op = "Merge"
    /\ \E n \in DOMAIN arg.src : DOMAIN arg.src[n] = {} /\ n \notin DOMAIN index

====
